---- MODULE Spec2Model ----
(***************************************************************************)
(* Model of OpenXcom's manufacturing order, Savegame/Production.cpp: one   *)
(* Production at one Base, its rule (RuleManufacture) and the pools it     *)
(* reads and writes (funds, item storage, craft roster, transfers, score). *)
(***************************************************************************)
EXTENDS Integers, Sequences, FiniteSets, TLC

(* ------------------------------ bounds -------------------------------- *)
\* largest target amount an order is created with
MaxAmount == 3
\* largest number of engineers the player assigns
MaxEngineers == 2
\* labour is advanced while it stays within MaxUnits units' worth of time
MaxUnits == 3
\* number of external top-ups (funds, items, craft) during one order
MaxRestores == 1

(* --------------------------- the rule data ---------------------------- *)
Items == {"A", "M", "X"}
NoItems == [i \in Items |-> 0]
Qty(i, n) == [NoItems EXCEPT ![i] = n]

\* RuleItem::getSellCostAdjusted, per item type
SellCost == [i \in Items |-> CASE i = "A" -> 30 [] i = "M" -> 10 [] OTHER -> 20]

\* the manufacture rules the orders of this model are created from
RuleItemPlain ==
    [name |-> "STR_PLAIN", cost |-> 100, time |-> 10,
     requiredItems |-> NoItems, requiredCrafts |-> << >>,
     producedCraft |-> "", producedItems |-> Qty("A", 2),
     randomProducedItems |-> << >>, spawnedPersonType |-> "", points |-> 0]
RuleFast ==
    [name |-> "STR_FAST", cost |-> 50, time |-> 1,
     requiredItems |-> Qty("M", 1), requiredCrafts |-> << >>,
     producedCraft |-> "", producedItems |-> Qty("A", 1),
     randomProducedItems |-> << >>, spawnedPersonType |-> "", points |-> 0]
RuleCraftOut ==
    [name |-> "STR_CRAFT", cost |-> 100, time |-> 2,
     requiredItems |-> Qty("M", 1), requiredCrafts |-> << <<"SUP", 1>> >>,
     producedCraft |-> "NEW", producedItems |-> Qty("A", 1),
     randomProducedItems |-> << [weight |-> 1, items |-> Qty("X", 1)],
                                [weight |-> 1, items |-> Qty("M", 1)] >>,
     spawnedPersonType |-> "", points |-> 0]
RulePerson ==
    [name |-> "STR_PERSON", cost |-> 50, time |-> 1,
     requiredItems |-> NoItems, requiredCrafts |-> << >>,
     producedCraft |-> "", producedItems |-> NoItems,
     randomProducedItems |-> << >>, spawnedPersonType |-> "STR_SCIENTIST",
     points |-> -1]
RuleRandom ==
    [name |-> "STR_RANDOM", cost |-> 50, time |-> 1,
     requiredItems |-> NoItems, requiredCrafts |-> << >>,
     producedCraft |-> "", producedItems |-> Qty("A", 1),
     randomProducedItems |-> << [weight |-> 1, items |-> Qty("A", 1)],
                                [weight |-> 2, items |-> Qty("X", 2)],
                                [weight |-> 1, items |-> Qty("M", 1)] >>,
     spawnedPersonType |-> "", points |-> 0]
RuleInstant ==
    [name |-> "STR_INSTANT", cost |-> 50, time |-> 0,
     requiredItems |-> NoItems, requiredCrafts |-> << >>,
     producedCraft |-> "", producedItems |-> Qty("A", 1),
     randomProducedItems |-> << >>, spawnedPersonType |-> "", points |-> 0]
Rules == {RuleItemPlain, RuleFast, RuleCraftOut, RulePerson, RuleRandom,
          RuleInstant}

(* ------------------------------ state --------------------------------- *)
VARIABLES
    rules,                \* Production::_rules
    amount,               \* Production::_amount
    infinite,             \* Production::_infinite
    timeSpent,            \* Production::_timeSpent
    engineers,            \* Production::_engineers
    sell,                 \* Production::_sell
    randomProductionInfo, \* Production::_randomProductionInfo
    funds,                \* SavedGame funds
    stock,                \* Base storage items
    crafts,               \* Base craft roster (rule type of each craft)
    transfers,            \* Base transfers (payload of each)
    score,                \* SavedGame research score
    availableQuarters,    \* Base::getAvailableQuarters
    usedQuarters,         \* Base::getUsedQuarters
    phase,                \* life of the order: queued, active, complete, cancelled
    status,               \* what the last call of step returned, NONE before it
    hist,                 \* history of the calls, for stating the properties
    node,                 \* the YAML::Node save wrote and load reads
    registry              \* Registry: its component storage and its last answer

vars == <<rules, amount, infinite, timeSpent, engineers, sell,
          randomProductionInfo, funds, stock, crafts, transfers, score,
          availableQuarters, usedQuarters, phase, status, hist, node,
          registry>>

(* -------------------- collaborators of Production --------------------- *)
\* C++ int division truncates toward zero
CDiv(a, b) == IF a >= 0 THEN a \div b ELSE -((-a) \div b)

Min(a, b) == IF a < b THEN a ELSE b
Max(a, b) == IF a > b THEN a ELSE b

\* ItemContainer::addItem / removeItem on the storage of the base, for every
\* item and quantity of q
AddItems(st, q) == [i \in Items |-> st[i] + q[i]]
RemoveItems(st, q) == [i \in Items |-> st[i] - q[i]]

\* Base::getCraftCountForProduction: the craft of that rule at the base
RECURSIVE CraftCount(_, _)
CraftCount(cs, type) ==
    IF cs = << >> THEN 0
    ELSE (IF Head(cs) = type THEN 1 ELSE 0) + CraftCount(Tail(cs), type)

\* Base::removeCraft on the first craft of the roster with that rule
RECURSIVE RemoveFirstCraft(_, _)
RemoveFirstCraft(cs, type) ==
    IF cs = << >> THEN << >>
    ELSE IF Head(cs) = type THEN Tail(cs)
    ELSE <<Head(cs)>> \o RemoveFirstCraft(Tail(cs), type)

\* Mod::getSoldier knows these soldier types
SoldierTypes == {"STR_SOLDIER"}

\* RuleManufacture::haveEnoughMoneyForOneMoreUnit
RuleHaveEnoughMoney(f) == f >= rules.cost

\* sum of the sale of every produced item of one unit
RECURSIVE SaleOf(_, _)
SaleOf(S, q) ==
    IF S = {} THEN 0
    ELSE LET i == CHOOSE x \in S : TRUE
         IN SellCost[i] * q[i] + SaleOf(S \ {i}, q)

(* --------------------------- Production ------------------------------- *)
\* the pools a call works on, with the tally of the order and the history
World ==
    [funds |-> funds, stock |-> stock, crafts |-> crafts,
     transfers |-> transfers, score |-> score,
     tally |-> randomProductionInfo,
     units |-> hist.units, starts |-> hist.starts, log |-> << >>]

\* mutant: the units counted are rounded up
GetAmountProducedRoundedUp(t) ==
    IF rules.time > 0 THEN CDiv(t + rules.time - 1, rules.time) ELSE amount

\* mutant: a rule that takes no time has produced nothing
GetAmountProducedNoneWhenInstant(t) ==
    IF rules.time > 0 THEN CDiv(t, rules.time) ELSE 0

GetAmountProducedAt(t) ==
    IF rules.time > 0 THEN CDiv(t, rules.time) ELSE amount

GetAmountProduced == GetAmountProducedAt(timeSpent)

HaveEnoughMoneyForOneMoreUnit(w) == RuleHaveEnoughMoney(w.funds)

\* mutant: full quarters block the order
LivingSpaceBlocksWhenFull ==
    ~(rules.spawnedPersonType # "" /\ availableQuarters <= usedQuarters)

HaveEnoughLivingSpaceForOneMoreUnit ==
    ~(rules.spawnedPersonType # "" /\ availableQuarters < usedQuarters)

HaveEnoughMaterialsForOneMoreUnit(w) ==
    /\ \A i \in Items : ~(w.stock[i] < rules.requiredItems[i])
    /\ \A k \in 1..Len(rules.requiredCrafts) :
          ~(CraftCount(w.crafts, rules.requiredCrafts[k][1])
               < rules.requiredCrafts[k][2])

\* mutant: startItem takes as many craft of an entry as the entry requires
RECURSIVE RemoveCrafts(_, _, _)
RemoveCrafts(cs, type, n) ==
    IF n <= 0 THEN cs ELSE RemoveCrafts(RemoveFirstCraft(cs, type), type, n - 1)
RECURSIVE ConsumeCraftsByCount(_, _)
ConsumeCraftsByCount(cs, k) ==
    IF k > Len(rules.requiredCrafts) THEN cs
    ELSE ConsumeCraftsByCount(
             RemoveCrafts(cs, rules.requiredCrafts[k][1],
                          rules.requiredCrafts[k][2]), k + 1)

\* the craft loop of startItem, from entry k on
RECURSIVE ConsumeCrafts(_, _)
ConsumeCrafts(cs, k) ==
    IF k > Len(rules.requiredCrafts) THEN cs
    ELSE ConsumeCrafts(RemoveFirstCraft(cs, rules.requiredCrafts[k][1]), k + 1)

StartItem(w) ==
    [w EXCEPT !.funds = @ - rules.cost,
              !.stock = RemoveItems(@, rules.requiredItems),
              !.crafts = ConsumeCrafts(@, 1),
              !.starts = @ + 1]

\* mutant: the refund forgets the required items
RefundItemFundsOnly(w) == [w EXCEPT !.funds = @ + rules.cost]

RefundItem(w) ==
    [w EXCEPT !.funds = @ + rules.cost,
              !.stock = AddItems(@, rules.requiredItems)]

\* the roulette of step: index of the first set whose running total
\* reaches the roll, 0 when none does
RECURSIVE RouletteStrict(_, _, _)
\* mutant: the running total has to exceed the roll
RouletteStrict(k, runningTotal, roll) ==
    IF k > Len(rules.randomProducedItems) THEN 0
    ELSE LET rt == runningTotal + rules.randomProducedItems[k].weight
         IN IF rt > roll THEN k ELSE RouletteStrict(k + 1, rt, roll)

RECURSIVE Roulette(_, _, _)
Roulette(k, runningTotal, roll) ==
    IF k > Len(rules.randomProducedItems) THEN 0
    ELSE LET rt == runningTotal + rules.randomProducedItems[k].weight
         IN IF rt >= roll THEN k ELSE Roulette(k + 1, rt, roll)

RECURSIVE TotalWeightFrom(_)
TotalWeightFrom(k) ==
    IF k > Len(rules.randomProducedItems) THEN 0
    ELSE rules.randomProducedItems[k].weight + TotalWeightFrom(k + 1)
TotalWeight == TotalWeightFrom(1)

HasRandom == rules.randomProducedItems # << >>

\* mutant: sold items are put into the stores as well
ProducePrimarySellsAndStocks(w) ==
    IF rules.producedCraft # ""
    THEN [w EXCEPT !.crafts = Append(@, rules.producedCraft)]
    ELSE [w EXCEPT !.funds = IF sell THEN @ + SaleOf(Items, rules.producedItems)
                             ELSE @,
                   !.stock = AddItems(@, rules.producedItems),
                   !.tally = IF HasRandom
                             THEN AddItems(@, rules.producedItems) ELSE @]

\* mutant: the produced items are handled even when a craft is produced
ProducePrimaryCraftAndItems(w) ==
    LET w1 == IF rules.producedCraft # ""
              THEN [w EXCEPT !.crafts = Append(@, rules.producedCraft)] ELSE w
    IN IF sell
       THEN [w1 EXCEPT !.funds = @ + SaleOf(Items, rules.producedItems)]
       ELSE [w1 EXCEPT !.stock = AddItems(@, rules.producedItems),
                       !.tally = IF HasRandom
                                 THEN AddItems(@, rules.producedItems) ELSE @]

\* primary output of one unit: a craft, or else the produced items
ProducePrimary(w) ==
    IF rules.producedCraft # ""
    THEN [w EXCEPT !.crafts = Append(@, rules.producedCraft)]
    ELSE IF sell
    THEN [w EXCEPT !.funds = @ + SaleOf(Items, rules.producedItems)]
    ELSE [w EXCEPT !.stock = AddItems(@, rules.producedItems),
                   !.tally = IF HasRandom
                             THEN AddItems(@, rules.producedItems) ELSE @]

\* random manufacture of one unit, with the roll RNG::generate gave
ProduceRandom(w, roll) ==
    IF ~HasRandom THEN w
    ELSE LET k == Roulette(1, 0, roll)
             got == IF k = 0 THEN NoItems ELSE rules.randomProducedItems[k].items
         IN [w EXCEPT !.stock = AddItems(@, got),
                      !.tally = AddItems(@, got),
                      !.log = Append(@, [roll |-> roll, set |-> k])]

\* spawned person of one unit
SpawnPerson(w) ==
    IF rules.spawnedPersonType = "" THEN w
    ELSE IF rules.spawnedPersonType = "STR_SCIENTIST"
    THEN [w EXCEPT !.transfers = Append(@, "scientist")]
    ELSE IF rules.spawnedPersonType = "STR_ENGINEER"
    THEN [w EXCEPT !.transfers = Append(@, "engineer")]
    ELSE IF rules.spawnedPersonType \in SoldierTypes
    THEN [w EXCEPT !.transfers = Append(@, "soldier")]
    ELSE w

AddPoints(w) ==
    IF rules.points # 0 THEN [w EXCEPT !.score = @ + rules.points] ELSE w

\* one pass of the body of the do-while loop of step, before count++
RealizeUnit(w, roll) ==
    LET done == AddPoints(SpawnPerson(ProduceRandom(ProducePrimary(w), roll)))
    IN [done EXCEPT !.units = @ + 1]

\* the do-while loop of step: count passes made, produced the batch size;
\* yields the pools and the status of an early return, or "" when the loop ends
RECURSIVE BatchLoop(_, _, _, _)
BatchLoop(w, count, produced, rolls) ==
    LET w1 == RealizeUnit(w, rolls[count + 1])
        c1 == count + 1
    IN IF c1 < produced
       THEN IF ~HaveEnoughMoneyForOneMoreUnit(w1)
            THEN [w |-> w1, ret |-> "NOT_ENOUGH_MONEY"]
            ELSE IF ~HaveEnoughMaterialsForOneMoreUnit(w1)
            THEN [w |-> w1, ret |-> "NOT_ENOUGH_MATERIALS"]
            ELSE BatchLoop(StartItem(w1), c1, produced, rolls)
       ELSE [w |-> w1, ret |-> ""]

\* mutant: the cost is taken as soon as the money check passed
AfterLoopDebitsFirst(w, done, now) ==
    IF now >= amount /\ ~infinite THEN [w |-> w, ret |-> "COMPLETE"]
    ELSE IF done < now
    THEN IF ~HaveEnoughMoneyForOneMoreUnit(w)
         THEN [w |-> w, ret |-> "NOT_ENOUGH_MONEY"]
         ELSE LET paid == [w EXCEPT !.funds = @ - rules.cost]
              IN IF ~HaveEnoughLivingSpaceForOneMoreUnit
                 THEN [w |-> paid, ret |-> "NOT_ENOUGH_LIVING_SPACE"]
                 ELSE IF ~HaveEnoughMaterialsForOneMoreUnit(w)
                 THEN [w |-> paid, ret |-> "NOT_ENOUGH_MATERIALS"]
                 ELSE [w |-> StartItem(w), ret |-> "NOT_COMPLETE"]
    ELSE [w |-> w, ret |-> "NOT_COMPLETE"]

\* mutant: the materials are checked before the money
AfterLoopMaterialsFirst(w, done, now) ==
    IF now >= amount /\ ~infinite THEN [w |-> w, ret |-> "COMPLETE"]
    ELSE IF done < now
    THEN IF ~HaveEnoughMaterialsForOneMoreUnit(w)
         THEN [w |-> w, ret |-> "NOT_ENOUGH_MATERIALS"]
         ELSE IF ~HaveEnoughMoneyForOneMoreUnit(w)
         THEN [w |-> w, ret |-> "NOT_ENOUGH_MONEY"]
         ELSE IF ~HaveEnoughLivingSpaceForOneMoreUnit
         THEN [w |-> w, ret |-> "NOT_ENOUGH_LIVING_SPACE"]
         ELSE [w |-> StartItem(w), ret |-> "NOT_COMPLETE"]
    ELSE [w |-> w, ret |-> "NOT_COMPLETE"]

\* mutant: the next unit is checked and started before the target is looked at
AfterLoopStartsBeforeComplete(w, done, now) ==
    IF done < now /\ ~HaveEnoughMoneyForOneMoreUnit(w)
    THEN [w |-> w, ret |-> "NOT_ENOUGH_MONEY"]
    ELSE IF done < now /\ ~HaveEnoughLivingSpaceForOneMoreUnit
    THEN [w |-> w, ret |-> "NOT_ENOUGH_LIVING_SPACE"]
    ELSE IF done < now /\ ~HaveEnoughMaterialsForOneMoreUnit(w)
    THEN [w |-> w, ret |-> "NOT_ENOUGH_MATERIALS"]
    ELSE LET w1 == IF done < now THEN StartItem(w) ELSE w
         IN IF now >= amount /\ ~infinite THEN [w |-> w1, ret |-> "COMPLETE"]
            ELSE [w |-> w1, ret |-> "NOT_COMPLETE"]

\* mutant: the order completes only once the count exceeds the target
AfterLoopCompletesPastTarget(w, done, now) ==
    IF now > amount /\ ~infinite THEN [w |-> w, ret |-> "COMPLETE"]
    ELSE IF done < now
    THEN IF ~HaveEnoughMoneyForOneMoreUnit(w)
         THEN [w |-> w, ret |-> "NOT_ENOUGH_MONEY"]
         ELSE IF ~HaveEnoughLivingSpaceForOneMoreUnit
         THEN [w |-> w, ret |-> "NOT_ENOUGH_LIVING_SPACE"]
         ELSE IF ~HaveEnoughMaterialsForOneMoreUnit(w)
         THEN [w |-> w, ret |-> "NOT_ENOUGH_MATERIALS"]
         ELSE [w |-> StartItem(w), ret |-> "NOT_COMPLETE"]
    ELSE [w |-> w, ret |-> "NOT_COMPLETE"]

\* mutant: the checks and the next start are made on every call that does
\* not complete the order, whether a unit finished or not
AfterLoopAlwaysChecks(w, done, now) ==
    IF now >= amount /\ ~infinite THEN [w |-> w, ret |-> "COMPLETE"]
    ELSE IF ~HaveEnoughMoneyForOneMoreUnit(w)
    THEN [w |-> w, ret |-> "NOT_ENOUGH_MONEY"]
    ELSE IF ~HaveEnoughLivingSpaceForOneMoreUnit
    THEN [w |-> w, ret |-> "NOT_ENOUGH_LIVING_SPACE"]
    ELSE IF ~HaveEnoughMaterialsForOneMoreUnit(w)
    THEN [w |-> w, ret |-> "NOT_ENOUGH_MATERIALS"]
    ELSE [w |-> StartItem(w), ret |-> "NOT_COMPLETE"]

\* mutant: the next unit is started without checking money or materials
AfterLoopStartsUnchecked(w, done, now) ==
    IF now >= amount /\ ~infinite THEN [w |-> w, ret |-> "COMPLETE"]
    ELSE IF done < now
    THEN IF ~HaveEnoughLivingSpaceForOneMoreUnit
         THEN [w |-> w, ret |-> "NOT_ENOUGH_LIVING_SPACE"]
         ELSE [w |-> StartItem(w), ret |-> "NOT_COMPLETE"]
    ELSE [w |-> w, ret |-> "NOT_COMPLETE"]

\* what the end of step does after the loop, on an order that advanced
\* from done to now units
AfterLoop(w, done, now) ==
    IF now >= amount /\ ~infinite THEN [w |-> w, ret |-> "COMPLETE"]
    ELSE IF done < now
    THEN IF ~HaveEnoughMoneyForOneMoreUnit(w)
         THEN [w |-> w, ret |-> "NOT_ENOUGH_MONEY"]
         ELSE IF ~HaveEnoughLivingSpaceForOneMoreUnit
         THEN [w |-> w, ret |-> "NOT_ENOUGH_LIVING_SPACE"]
         ELSE IF ~HaveEnoughMaterialsForOneMoreUnit(w)
         THEN [w |-> w, ret |-> "NOT_ENOUGH_MATERIALS"]
         ELSE [w |-> StartItem(w), ret |-> "NOT_COMPLETE"]
    ELSE [w |-> w, ret |-> "NOT_COMPLETE"]

\* mutant: the batch is not capped at the target
ProducedUncapped(done, now) == now - done

\* the batch size step computes
Produced(done, now) ==
    IF ~infinite THEN Min(now, amount) - done ELSE now - done

\* mutant: labour is only added while the next unit can be paid for
TimeSpentAfterIfAffordable(t, e) ==
    IF HaveEnoughMoneyForOneMoreUnit(World) THEN t + e ELSE t

\* _timeSpent += _engineers, the first thing step does
TimeSpentAfter(t, e) == t + e

\* Production::step on the pools w with the labour advanced to t
StepResult(w, t, rolls) ==
    LET done == GetAmountProduced
        now == GetAmountProducedAt(t)
    IN IF done < now
       THEN LET b == BatchLoop(w, 0, Produced(done, now), rolls)
            IN IF b.ret # "" THEN [w |-> b.w, ret |-> b.ret, at |-> "loop"]
               ELSE LET e == AfterLoop(b.w, done, now)
                    IN [w |-> e.w, ret |-> e.ret, at |-> "end"]
       ELSE LET e == AfterLoop(w, done, now)
            IN [w |-> e.w, ret |-> e.ret, at |-> "end"]

(* ------------------------- the state machine -------------------------- *)
Blocking == {"NOT_ENOUGH_MONEY", "NOT_ENOUGH_MATERIALS", "NOT_ENOUGH_LIVING_SPACE"}

\* labour an order of this model is advanced to at most
LaborCap == MaxUnits * Max(rules.time, 1)

\* the pools startItem debits, as a call finds them
Snapshot == [funds |-> funds, stock |-> stock, crafts |-> crafts]

RECURSIVE Copies(_, _)
Copies(x, n) == IF n <= 0 THEN << >> ELSE <<x>> \o Copies(x, n - 1)

NeedsMaterials(r) == r.requiredItems # NoItems \/ r.requiredCrafts # << >>

\* no node written yet, an empty registry never asked
NoNode == << >>
NoRegistry ==
    [storage |-> << >>, call |-> "", offset |-> 0,
     result |-> [kind |-> "none", id |-> 0]]

\* Production::Production, at a base with some funds, stores and craft
Init ==
    /\ node = NoNode
    /\ registry = NoRegistry
    /\ rules \in Rules
    /\ infinite \in BOOLEAN
    /\ amount \in (IF infinite THEN {MaxAmount} ELSE 1..MaxAmount)
    /\ sell \in BOOLEAN
    /\ timeSpent = 0
    /\ engineers = 0
    /\ randomProductionInfo = NoItems
    /\ funds \in {rules.cost, rules.cost + 50, 3 * rules.cost + 50}
    /\ \E k \in (IF NeedsMaterials(rules) THEN {1, 3} ELSE {1}) :
          /\ stock = [i \in Items |-> k * rules.requiredItems[i]]
          /\ crafts = IF rules.requiredCrafts = << >> THEN << >>
                      ELSE <<"OTHER">> \o Copies(rules.requiredCrafts[1][1], k)
    /\ transfers = << >>
    /\ score = 0
    /\ availableQuarters = 2
    /\ usedQuarters \in (IF rules.spawnedPersonType # "" THEN 1..3 ELSE {0})
    /\ phase = "queued"
    /\ status = "NONE"
    /\ hist = [units |-> 0, starts |-> 0, restores |-> 0, lastOp |-> "other",
               at |-> "", log |-> << >>, preStart |-> << >>]

Pools(w) ==
    /\ funds' = w.funds
    /\ stock' = w.stock
    /\ crafts' = w.crafts
    /\ transfers' = w.transfers
    /\ score' = w.score
    /\ randomProductionInfo' = w.tally

\* the player starts the queued order: startItem for its first unit
StartProduction ==
    /\ phase = "queued"
    /\ HaveEnoughMoneyForOneMoreUnit(World)
    /\ HaveEnoughMaterialsForOneMoreUnit(World)
    /\ LET w == StartItem(World)
       IN /\ Pools(w)
          /\ hist' = [hist EXCEPT !.starts = w.starts, !.preStart = Snapshot]
    /\ phase' = "active"
    /\ UNCHANGED status
    /\ UNCHANGED <<rules, amount, infinite, timeSpent, engineers, sell,
                   availableQuarters, usedQuarters, node, registry>>

\* the player stops the order: refundItem for the unit in progress
CancelProduction ==
    /\ phase = "active"
    /\ LET w == RefundItem(World)
       IN /\ Pools(w)
          /\ hist' = [hist EXCEPT !.lastOp = "other"]
    /\ phase' = "cancelled"
    /\ UNCHANGED status
    /\ UNCHANGED <<rules, amount, infinite, timeSpent, engineers, sell,
                   availableQuarters, usedQuarters, node, registry>>

SetAssignedEngineers(e) ==
    /\ phase \in {"queued", "active"}
    /\ e # engineers
    /\ engineers' = e
    /\ hist' = [hist EXCEPT !.lastOp = "other"]
    /\ UNCHANGED <<rules, amount, infinite, timeSpent, sell,
                   randomProductionInfo, funds, stock, crafts, transfers, score,
                   availableQuarters, usedQuarters, phase, status, node,
                   registry>>

\* one tick of the order: Production::step. The order is stepped while it
\* is active: once step returned COMPLETE the game removes it.
StepCall(rolls) ==
    /\ phase = "active"
    /\ LET t == TimeSpentAfter(timeSpent, engineers)
           r == StepResult(World, t, rolls)
       IN /\ timeSpent' = t
          /\ Pools(r.w)
          /\ status' = r.ret
          /\ phase' = IF r.ret = "COMPLETE" THEN "complete" ELSE "active"
          /\ hist' = [hist EXCEPT !.units = r.w.units, !.starts = r.w.starts,
                                  !.lastOp = "step", !.at = r.at,
                                  !.log = r.w.log]
    /\ UNCHANGED <<rules, amount, infinite, engineers, sell,
                   availableQuarters, usedQuarters, node, registry>>

\* a call of step, on an order whose labour stays within the cap
Step(rolls) ==
    /\ timeSpent + engineers <= LaborCap
    /\ StepCall(rolls)

\* the rolls RNG::generate(1, totalWeight) may give during one call
RollsOfCall ==
    LET now == GetAmountProducedAt(timeSpent + engineers)
        n == Max(1, Produced(GetAmountProduced, now))
    IN [1..n -> 1..Max(1, TotalWeight)]

\* the hourly tick of the base calls step, whatever the rolls turn out to be
Tick == \E rolls \in RollsOfCall : Step(rolls)

\* the player gets funds, stores or craft from elsewhere
TopUp(what) ==
    /\ phase = "active"
    /\ status \in Blocking
    /\ hist.restores < MaxRestores
    /\ \/ /\ what = "funds"
          /\ rules.cost > 0
          /\ funds' = funds + rules.cost
          /\ UNCHANGED <<stock, crafts>>
       \/ /\ what = "items"
          /\ rules.requiredItems # NoItems
          /\ stock' = AddItems(stock, rules.requiredItems)
          /\ UNCHANGED <<funds, crafts>>
       \/ /\ what = "craft"
          /\ rules.requiredCrafts # << >>
          /\ crafts' = Append(crafts, rules.requiredCrafts[1][1])
          /\ UNCHANGED <<funds, stock>>
    /\ hist' = [hist EXCEPT !.restores = @ + 1, !.lastOp = "other"]
    /\ UNCHANGED <<rules, amount, infinite, timeSpent, engineers, sell,
                   randomProductionInfo, transfers, score,
                   availableQuarters, usedQuarters, phase, status, node,
                   registry>>

Next ==
    \/ StartProduction
    \/ CancelProduction
    \/ \E e \in 1..MaxEngineers : SetAssignedEngineers(e)
    \/ Tick
    \/ \E what \in {"funds", "items", "craft"} : TopUp(what)

Spec == Init /\ [][Next]_vars

(* ----------------------- orders that keep running --------------------- *)
\* the bounded orders of Init
InitLive == Init /\ ~infinite

\* the hourly tick on a bounded order: no cap is needed, the labour stops
\* growing when step returns COMPLETE
TickLive == \E rolls \in RollsOfCall : StepCall(rolls)

\* the engineers are assigned once, when the order is queued
AssignEngineers(e) == phase = "queued" /\ SetAssignedEngineers(e)

NextLive ==
    \/ StartProduction
    \/ \E e \in 1..MaxEngineers : AssignEngineers(e)
    \/ TickLive

\* bounded orders nobody cancels or supplies: the base calls step on every
\* order it holds once an hour, for as long as it holds the order
SpecLive == InitLive /\ [][NextLive]_vars /\ WF_vars(TickLive)

(* ------------------- orders that need support craft ------------------ *)
\* craft a roster of these orders holds at most
MaxCrafts == 5

CraftTypes == {"SUP", "OTHER", "NEW"}

\* a rule that requires two craft of one type and one of another
RuleSupportTwo ==
    [name |-> "STR_TWO", cost |-> 50, time |-> 1,
     requiredItems |-> Qty("M", 2),
     requiredCrafts |-> << <<"SUP", 2>>, <<"OTHER", 1>> >>,
     producedCraft |-> "", producedItems |-> Qty("A", 1),
     randomProducedItems |-> << >>,
     spawnedPersonType |-> "", points |-> 0]

\* every roster of up to MaxCrafts craft, in any order
Rosters == UNION {[1..n -> CraftTypes] : n \in 0..MaxCrafts}

\* orders of rules with required craft, at bases with any roster, with and
\* without the funds and the items of a unit
InitStart ==
    /\ node = NoNode
    /\ registry = NoRegistry
    /\ rules \in {RuleSupportTwo, RuleCraftOut}
    /\ infinite = FALSE
    /\ amount = 2
    /\ sell = FALSE
    /\ timeSpent = 0
    /\ engineers = 0
    /\ randomProductionInfo = NoItems
    /\ funds \in {0, 2 * rules.cost}
    /\ \E m \in {1, 4} : stock = Qty("M", m)
    /\ crafts \in Rosters
    /\ transfers = << >>
    /\ score = 0
    /\ availableQuarters = 2
    /\ usedQuarters = 0
    /\ phase = "queued"
    /\ status = "NONE"
    /\ hist = [units |-> 0, starts |-> 0, restores |-> 0, lastOp |-> "other",
               at |-> "", log |-> << >>, preStart |-> << >>]

NextStart ==
    \/ StartProduction
    \/ \E e \in 1..MaxEngineers : AssignEngineers(e)
    \/ Tick

SpecStart == InitStart /\ [][NextStart]_vars

(* --------------------- editing, saving and loading -------------------- *)


\* INT_MAX, the target older saves gave an endless order, and the target
\* load gives such an order
IntMax == 2147483647
LegacyInfiniteAmount == 999

\* the scalars of a node: an int is written as its decimal digits and read
\* back from them, a bool as true or false
DigitChars == <<"0", "1", "2", "3", "4", "5", "6", "7", "8", "9">>

RECURSIVE EmitDigits(_)
EmitDigits(n) ==
    IF n < 10 THEN <<DigitChars[n + 1]>>
    ELSE Append(EmitDigits(n \div 10), DigitChars[(n % 10) + 1])

EmitInt(n) == IF n < 0 THEN <<"-">> \o EmitDigits(0 - n) ELSE EmitDigits(n)

DigitValue(c) == CHOOSE d \in 0..9 : DigitChars[d + 1] = c

RECURSIVE ParseDigits(_, _)
ParseDigits(s, acc) ==
    IF s = << >> THEN acc
    ELSE ParseDigits(Tail(s), acc * 10 + DigitValue(Head(s)))

ParseInt(s) ==
    IF Head(s) = "-" THEN 0 - ParseDigits(Tail(s), 0) ELSE ParseDigits(s, 0)

EmitBool(b) == IF b THEN "true" ELSE "false"

ParseBool(s, fallback) ==
    IF s = "true" THEN TRUE ELSE IF s = "false" THEN FALSE ELSE fallback

\* _randomProductionInfo as a map node: the item types it counts
EmitTally(t) == [i \in {j \in Items : t[j] # 0} |-> EmitInt(t[i])]

ParseTally(m) == [i \in Items |-> IF i \in DOMAIN m THEN ParseInt(m[i]) ELSE 0]

\* the fields of the order that save writes and load sets
Order ==
    [engineers |-> engineers, timeSpent |-> timeSpent, amount |-> amount,
     infinite |-> infinite, sell |-> sell,
     randomProductionInfo |-> randomProductionInfo]

\* mutant: the sell flag is written whatever it is
SaveAlwaysWritesSell(o) ==
    LET base == [item |-> rules.name,
                 assigned |-> EmitInt(o.engineers),
                 spent |-> EmitInt(o.timeSpent),
                 amount |-> EmitInt(o.amount),
                 infinite |-> EmitBool(o.infinite),
                 sell |-> EmitBool(o.sell)]
    IN IF HasRandom
       THEN base @@ ("randomProductionInfo" :> EmitTally(o.randomProductionInfo))
       ELSE base

\* Production::save: the node of the order with fields o
Save(o) ==
    LET base == [item |-> rules.name,
                 assigned |-> EmitInt(o.engineers),
                 spent |-> EmitInt(o.timeSpent),
                 amount |-> EmitInt(o.amount),
                 infinite |-> EmitBool(o.infinite)]
        withSell == IF o.sell THEN base @@ ("sell" :> EmitBool(o.sell)) ELSE base
    IN IF HasRandom
       THEN withSell
            @@ ("randomProductionInfo" :> EmitTally(o.randomProductionInfo))
       ELSE withSell

\* the setters of Production::load before its compatibility block: every
\* field is read from the node n, or stays what it is in o when n lacks it
ReadNode(n, o) ==
    [engineers |-> IF "assigned" \in DOMAIN n
                   THEN ParseInt(n["assigned"]) ELSE o.engineers,
     timeSpent |-> IF "spent" \in DOMAIN n
                   THEN ParseInt(n["spent"]) ELSE o.timeSpent,
     amount |-> IF "amount" \in DOMAIN n
                THEN ParseInt(n["amount"]) ELSE o.amount,
     infinite |-> IF "infinite" \in DOMAIN n
                  THEN ParseBool(n["infinite"], o.infinite) ELSE o.infinite,
     sell |-> IF "sell" \in DOMAIN n
              THEN ParseBool(n["sell"], o.sell) ELSE o.sell,
     randomProductionInfo |->
         IF HasRandom /\ "randomProductionInfo" \in DOMAIN n
         THEN ParseTally(n["randomProductionInfo"])
         ELSE o.randomProductionInfo]

\* mutant: a target of INT_MAX is loaded as it is
LoadWithoutMigration(n, o) == ReadNode(n, o)

\* Production::load of the node n into the order with fields o
Load(n, o) ==
    LET r == ReadNode(n, o)
    IN IF r.amount = IntMax
       THEN [r EXCEPT !.amount = LegacyInfiniteAmount,
                      !.infinite = TRUE, !.sell = TRUE]
       ELSE r

\* the orders that get saved: started with funds for every unit, some with
\* the target INT_MAX
InitLoad ==
    /\ node = NoNode
    /\ registry = NoRegistry
    /\ rules \in {RuleItemPlain, RuleRandom}
    /\ infinite \in BOOLEAN
    /\ amount \in (IF infinite THEN {MaxAmount, IntMax}
                   ELSE (1..MaxAmount) \cup {IntMax})
    /\ sell \in BOOLEAN
    /\ timeSpent = 0
    /\ engineers = 0
    /\ randomProductionInfo = NoItems
    /\ funds = 3 * rules.cost + 50
    /\ stock = NoItems
    /\ crafts = << >>
    /\ transfers = << >>
    /\ score = 0
    /\ availableQuarters = 2
    /\ usedQuarters = 0
    /\ phase = "queued"
    /\ status = "NONE"
    /\ hist = [units |-> 0, starts |-> 0, restores |-> 0, lastOp |-> "other",
               at |-> "", log |-> << >>, preStart |-> << >>,
               saved |-> << >>, dropped |-> ""]

\* the game is saved: the node of the running order is written
SaveOrder ==
    /\ phase = "active"
    /\ node' = Save(Order)
    /\ phase' = "saved"
    /\ hist' = [hist EXCEPT !.lastOp = "save", !.saved = Order]
    /\ UNCHANGED <<rules, amount, infinite, timeSpent, engineers, sell,
                   randomProductionInfo, funds, stock, crafts, transfers, score,
                   availableQuarters, usedQuarters, status, registry>>

\* the file comes from a version that did not write the key k yet
DropField(k) ==
    /\ phase = "saved"
    /\ hist.dropped = ""
    /\ k \in DOMAIN node
    /\ node' = [j \in DOMAIN node \ {k} |-> node[j]]
    /\ hist' = [hist EXCEPT !.lastOp = "drop", !.dropped = k]
    /\ UNCHANGED <<rules, amount, infinite, timeSpent, engineers, sell,
                   randomProductionInfo, funds, stock, crafts, transfers, score,
                   availableQuarters, usedQuarters, phase, status, registry>>

\* the game is loaded: Production::Production(rules, a) makes the order anew
NewProduction(a) ==
    /\ phase = "saved"
    /\ amount' = a
    /\ infinite' = FALSE
    /\ timeSpent' = 0
    /\ engineers' = 0
    /\ sell' = FALSE
    /\ randomProductionInfo' = NoItems
    /\ phase' = "fresh"
    /\ hist' = [hist EXCEPT !.lastOp = "new"]
    /\ UNCHANGED <<rules, funds, stock, crafts, transfers, score,
                   availableQuarters, usedQuarters, status, node, registry>>

\* Production::load on the new order, with the node of the file
LoadOrder ==
    /\ phase = "fresh"
    /\ LET r == Load(node, Order)
       IN /\ engineers' = r.engineers
          /\ timeSpent' = r.timeSpent
          /\ amount' = r.amount
          /\ infinite' = r.infinite
          /\ sell' = r.sell
          /\ randomProductionInfo' = r.randomProductionInfo
    /\ phase' = "loaded"
    /\ hist' = [hist EXCEPT !.lastOp = "load"]
    /\ UNCHANGED <<rules, funds, stock, crafts, transfers, score,
                   availableQuarters, usedQuarters, status, node, registry>>

NodeKeys ==
    {"assigned", "spent", "amount", "infinite", "sell", "randomProductionInfo"}

NextLoad ==
    \/ StartProduction
    \/ \E e \in 1..MaxEngineers : SetAssignedEngineers(e)
    \/ Tick
    \/ SaveOrder
    \/ \E k \in NodeKeys : DropField(k)
    \/ \E a \in {0, MaxAmount} : NewProduction(a)
    \/ LoadOrder

\* orders that run, are saved and are loaded again
SpecLoad == InitLoad /\ [][NextLoad]_vars

\* the player edits the target of a bounded order: Production::setAmountTotal
SetAmountTotal(a) ==
    /\ phase = "active"
    /\ ~infinite
    /\ a # amount
    /\ amount' = a
    /\ hist' = [hist EXCEPT !.lastOp = "other"]
    /\ UNCHANGED <<rules, infinite, timeSpent, engineers, sell,
                   randomProductionInfo, funds, stock, crafts, transfers, score,
                   availableQuarters, usedQuarters, phase, status, node,
                   registry>>

EditTarget == \E a \in 1..MaxAmount : SetAmountTotal(a)

NextEdit == Next \/ EditTarget

\* the orders of Spec, with a target the player may edit while they run
SpecEdit == Init /\ [][NextEdit]_vars

(* ------------------------------ Registry ------------------------------ *)
\* entities the registry may hold at once
MaxEntities == 3

Entities == 1..MaxEntities

\* what next and nextValue give back: an entity (its component), entt::null
\* (nullptr), or something that is neither
Entity(e) == [kind |-> "entity", id |-> e]
Null == [kind |-> "null", id |-> 0]
Garbage == [kind |-> "garbage", id |-> 0]

\* std::next(begin, offset) taken past the end of the storage is undefined:
\* the read may give any entity, null or garbage
PastTheEnd == {Entity(e) : e \in Entities} \cup {Null, Garbage}

\* components.size() < offset: the int is converted to the unsigned size
\* type, so a negative offset compares as a huge one
SizeBelow(size, offset) == IF offset < 0 THEN TRUE ELSE size < offset

\* Registry::next(offset) on the storage s: the results a call may give
RegistryNext(s, offset) ==
    IF SizeBelow(Len(s), offset) /\ offset > 0 THEN PastTheEnd ELSE {Null}

\* Registry::nextValue(offset) on the storage s, const or not
RegistryNextValue(s, offset) ==
    IF SizeBelow(Len(s), offset) /\ offset > 0 THEN PastTheEnd ELSE {Null}

RegistryFrame ==
    UNCHANGED <<rules, amount, infinite, timeSpent, engineers, sell,
                randomProductionInfo, funds, stock, crafts, transfers, score,
                availableQuarters, usedQuarters, phase, status, hist, node>>

\* Registry::createAndEmplace: a new entity with its component
CreateAndEmplace(e) ==
    /\ Len(registry.storage) < MaxEntities
    /\ \A k \in 1..Len(registry.storage) : registry.storage[k] # e
    /\ registry' = [NoRegistry EXCEPT !.storage = Append(registry.storage, e)]
    /\ RegistryFrame

\* Registry::destroy of the entity at position k
Destroy(k) ==
    /\ k \in 1..Len(registry.storage)
    /\ registry' = [NoRegistry EXCEPT !.storage =
                        SubSeq(registry.storage, 1, k - 1)
                        \o SubSeq(registry.storage, k + 1, Len(registry.storage))]
    /\ RegistryFrame

CallNext(offset) ==
    /\ \E r \in RegistryNext(registry.storage, offset) :
          registry' = [registry EXCEPT !.call = "next", !.offset = offset,
                                       !.result = r]
    /\ RegistryFrame

CallNextValue(offset) ==
    /\ \E r \in RegistryNextValue(registry.storage, offset) :
          registry' = [registry EXCEPT !.call = "nextValue",
                                       !.offset = offset, !.result = r]
    /\ RegistryFrame

\* the offsets asked for: below, inside and past the storage
Offsets == (0 - 1)..(MaxEntities + 1)

\* an empty registry, beside an order that is not touched
InitRegistry ==
    /\ registry = NoRegistry
    /\ node = NoNode
    /\ rules = RuleItemPlain
    /\ amount = 1
    /\ infinite = FALSE
    /\ sell = FALSE
    /\ timeSpent = 0
    /\ engineers = 0
    /\ randomProductionInfo = NoItems
    /\ funds = rules.cost
    /\ stock = NoItems
    /\ crafts = << >>
    /\ transfers = << >>
    /\ score = 0
    /\ availableQuarters = 2
    /\ usedQuarters = 0
    /\ phase = "queued"
    /\ status = "NONE"
    /\ hist = [units |-> 0, starts |-> 0, restores |-> 0, lastOp |-> "other",
               at |-> "", log |-> << >>, preStart |-> << >>]

NextRegistry ==
    \/ \E e \in Entities : CreateAndEmplace(e)
    \/ \E k \in 1..MaxEntities : Destroy(k)
    \/ \E offset \in Offsets : CallNext(offset)
    \/ \E offset \in Offsets : CallNextValue(offset)

SpecRegistry == InitRegistry /\ [][NextRegistry]_vars

(* --------------------------- the properties --------------------------- *)



\* a transition that is a call of step
IsStep == hist'.lastOp = "step"
\* units realized and startItem calls made by the call of that transition
UnitsOfCall == hist'.units - hist.units
StartsOfCall == hist'.starts - hist.starts
\* units the order counts as completed, capped at the target when bounded
CountedUnits ==
    IF infinite THEN GetAmountProduced ELSE Min(GetAmountProduced, amount)
\* items of type i the roulette granted during the last call
RECURSIVE GrantsOf(_, _)
GrantsOf(log, i) ==
    IF log = << >> THEN 0
    ELSE (IF Head(log).set = 0 THEN 0
          ELSE rules.randomProducedItems[Head(log).set].items[i])
         + GrantsOf(Tail(log), i)
\* sale value of the produced items of one unit
SaleOfUnit ==
    SellCost["A"] * rules.producedItems["A"]
    + SellCost["M"] * rules.producedItems["M"]
    + SellCost["X"] * rules.producedItems["X"]
\* what one realized unit credits to funds and adds to the stock of i
CreditOfUnit == IF rules.producedCraft = "" /\ sell THEN SaleOfUnit ELSE 0
StockedOfUnit(i) ==
    IF rules.producedCraft = "" /\ ~sell THEN rules.producedItems[i] ELSE 0

\* C1 (as claimed): when a call of step was blocked on money or materials,
\* the missing resources were restored and step is called again without
\* being blocked, every unit the order counts as completed (capped at the
\* target when bounded) has been realized exactly once.
C1_ResumeRealizesEveryCountedUnit ==
    [][(IsStep /\ rules.time > 0
         /\ status \in {"NOT_ENOUGH_MONEY", "NOT_ENOUGH_MATERIALS"}
         /\ HaveEnoughMoneyForOneMoreUnit(World)
         /\ HaveEnoughMaterialsForOneMoreUnit(World)
         /\ status' \notin Blocking)
        => hist'.units = CountedUnits']_vars

\* C2: a call of step that returns a blocking status made no startItem for
\* the blocked unit: with n units realized by the call it made n - 1 calls of
\* startItem, and funds, stock and roster are what they were before the call
\* plus the effects of the n units minus those n - 1 debits.
C2_BlockedAttemptDebitsNothing ==
    [][(IsStep /\ status' \in Blocking)
        => /\ UnitsOfCall >= 1
           /\ StartsOfCall = UnitsOfCall - 1
           /\ funds' = funds + UnitsOfCall * CreditOfUnit
                             - (UnitsOfCall - 1) * rules.cost
           /\ \A i \in Items :
                 stock'[i] = stock[i] + UnitsOfCall * StockedOfUnit(i)
                             + GrantsOf(hist'.log, i)
                             - (UnitsOfCall - 1) * rules.requiredItems[i]
           /\ Len(crafts') = Len(crafts)
                 + (IF rules.producedCraft # "" THEN UnitsOfCall ELSE 0)
                 - (UnitsOfCall - 1) * Len(rules.requiredCrafts)]_vars
\* a block on materials inside a batch, after the money check passed
C2_Witness ==
    /\ hist.lastOp = "step"
    /\ status = "NOT_ENOUGH_MATERIALS"
    /\ hist.at = "loop"
    /\ funds >= rules.cost
    /\ hist.units >= 1

\* C3 (as claimed): a bounded order never reports more completed units than
\* its target amount.
C3_ReportedNeverExceedsTarget ==
    (~infinite /\ phase \in {"active", "complete"}) => GetAmountProduced <= amount
\* C3 (amended): the units a bounded order has realized never exceed its
\* target amount, also when getAmountProduced reports more than the target.
C3_RealizedNeverExceedsTarget ==
    ~infinite => hist.units <= amount
\* the labour spent implies more units than the target, all of the target
\* realized
C3_Witness ==
    /\ ~infinite
    /\ rules.time > 0
    /\ GetAmountProduced > amount
    /\ hist.units = amount

\* C4 (as claimed): no unit is realized without a startItem of its own, and
\* startItem is never called for more than the one unit in progress.
C4_StartItemOncePerUnit ==
    /\ hist.units <= hist.starts
    /\ hist.starts <= hist.units + 1

\* C5: the first failing check decides the status: money before living space
\* before materials, living space only at the end of the call, never inside
\* the batch loop.
C5_FirstFailingCheckDecides ==
    hist.lastOp = "step" =>
       /\ (status \in Blocking /\ ~HaveEnoughMoneyForOneMoreUnit(World))
             => status = "NOT_ENOUGH_MONEY"
       /\ status = "NOT_ENOUGH_MONEY" => funds < rules.cost
       /\ status = "NOT_ENOUGH_LIVING_SPACE"
             => /\ hist.at = "end"
                /\ funds >= rules.cost
                /\ ~HaveEnoughLivingSpaceForOneMoreUnit
       /\ status = "NOT_ENOUGH_MATERIALS"
             => /\ funds >= rules.cost
                /\ hist.at = "end" => HaveEnoughLivingSpaceForOneMoreUnit
                /\ ~HaveEnoughMaterialsForOneMoreUnit(World)
\* money and materials both short: the status is the one of money
C5_Witness ==
    /\ hist.lastOp = "step"
    /\ status = "NOT_ENOUGH_MONEY"
    /\ ~HaveEnoughMaterialsForOneMoreUnit(World)

\* the end of a call of step that finished a unit, did not complete the order
\* and passed the money check: the living-space check decides next
ReachedLivingSpaceCheck ==
    /\ IsStep
    /\ hist'.at = "end"
    /\ UnitsOfCall >= 1
    /\ status' \notin {"COMPLETE", "NOT_ENOUGH_MONEY"}

\* C6 (as claimed): the living-space check blocks exactly when the rule
\* spawns a person and the used quarters are at least the available ones.
C6_BlockedWhenQuartersFull ==
    [][ReachedLivingSpaceCheck
        => (status' = "NOT_ENOUGH_LIVING_SPACE"
              <=> (rules.spawnedPersonType # ""
                     /\ usedQuarters >= availableQuarters))]_vars
\* C6 (amended): the living-space check blocks exactly when the rule spawns a
\* person and the used quarters exceed the available ones; with used equal to
\* available the next unit is started.
C6_BlockedWhenQuartersExceeded ==
    [][ReachedLivingSpaceCheck
        => (status' = "NOT_ENOUGH_LIVING_SPACE"
              <=> (rules.spawnedPersonType # ""
                     /\ usedQuarters > availableQuarters))]_vars
\* quarters exactly full, a person spawned and the next unit started
C6_Witness ==
    /\ hist.lastOp = "step"
    /\ rules.spawnedPersonType # ""
    /\ usedQuarters = availableQuarters
    /\ status = "NOT_COMPLETE"
    /\ hist.units >= 1
    /\ hist.starts = hist.units + 1

\* a call of step on a selling order of a rule that produces items
SellingCall == IsStep /\ sell /\ rules.producedCraft = "" /\ UnitsOfCall >= 1

\* C7 (as claimed): with the sell flag set, a call of step does not increase
\* the stock or the tally of any produced item type, and credits funds with
\* exactly the sale of the produced items of each unit it realized.
C7_SellingNeverStocksProducedTypes ==
    [][SellingCall
        => /\ \A i \in Items : rules.producedItems[i] > 0
                 => /\ stock'[i] <= stock[i]
                    /\ randomProductionInfo'[i] = randomProductionInfo[i]
           /\ funds' = funds + UnitsOfCall * SaleOfUnit
                             - StartsOfCall * rules.cost]_vars
\* C7 (amended): with the sell flag set, the produced items of a unit are
\* never stocked or tallied, and funds are credited with exactly their sale;
\* stock and tally of every item type grow by what the roulette granted of
\* that type, and by nothing else.
C7_SellingStocksOnlyRouletteGrants ==
    [][SellingCall
        => /\ \A i \in Items :
                 /\ stock'[i] = stock[i] + GrantsOf(hist'.log, i)
                                - StartsOfCall * rules.requiredItems[i]
                 /\ randomProductionInfo'[i]
                       = randomProductionInfo[i] + GrantsOf(hist'.log, i)
           /\ funds' = funds + UnitsOfCall * SaleOfUnit
                             - StartsOfCall * rules.cost]_vars
\* a selling order whose roulette granted an item type it also produces
C7_Witness ==
    /\ hist.lastOp = "step"
    /\ sell
    /\ rules.producedCraft = ""
    /\ hist.units >= 1
    /\ \E k \in 1..Len(hist.log) :
          /\ hist.log[k].set # 0
          /\ \E i \in Items :
                /\ rules.producedItems[i] > 0
                /\ rules.randomProducedItems[hist.log[k].set].items[i] > 0

\* weight of the sets 1..k of the rule together
RECURSIVE CumulativeWeight(_)
CumulativeWeight(k) ==
    IF k = 0 THEN 0
    ELSE CumulativeWeight(k - 1) + rules.randomProducedItems[k].weight

\* C8: every unit of a rule with random outputs is granted the items of
\* exactly one set, the first one whose cumulative weight reaches the roll.
C8_RoulettePicksFirstReached ==
    [][IsStep
        => /\ Len(hist'.log) = IF HasRandom THEN UnitsOfCall ELSE 0
           /\ \A n \in 1..Len(hist'.log) :
                 LET e == hist'.log[n]
                 IN /\ e.set \in 1..Len(rules.randomProducedItems)
                    /\ CumulativeWeight(e.set) >= e.roll
                    /\ \A j \in 1..(e.set - 1) : CumulativeWeight(j) < e.roll
           /\ \A i \in Items :
                 stock'[i] = stock[i] + UnitsOfCall * StockedOfUnit(i)
                             + GrantsOf(hist'.log, i)
                             - StartsOfCall * rules.requiredItems[i]]_vars
\* a roll that equals a cumulative weight short of the total: the tie
C8_Witness ==
    /\ hist.lastOp = "step"
    /\ \E n \in 1..Len(hist.log) :
          /\ hist.log[n].set < Len(rules.randomProducedItems)
          /\ hist.log[n].set > 1
          /\ hist.log[n].roll = CumulativeWeight(hist.log[n].set)

CountIsQuotient ==
    rules.time > 0 =>
       /\ timeSpent >= 0
       /\ GetAmountProduced * rules.time <= timeSpent
       /\ timeSpent < (GetAmountProduced + 1) * rules.time

\* C10: with a positive time per unit the units counted are the labour spent
\* divided by it, rounded down, in every state, and no step of the order
\* makes them fewer.
C10_CountIsQuotientAndMonotonic ==
    /\ CountIsQuotient
    /\ [][/\ CountIsQuotient'
          /\ (rules.time > 0 /\ engineers >= 0)
                => GetAmountProduced' >= GetAmountProduced]_vars
\* labour that is no multiple of the time of a unit, with a unit counted
C10_Witness ==
    /\ rules.time > 1
    /\ timeSpent % rules.time # 0
    /\ GetAmountProduced >= 1

\* the order of the scenario: cost 100 and time 10 a unit, nothing required,
\* target 3, not selling, funds 250 once its first unit is started
Scenario ==
    /\ rules = RuleItemPlain
    /\ ~infinite
    /\ amount = 3
    /\ ~sell
    /\ phase \in {"active", "complete"}
    /\ hist.preStart.funds = 350
\* nothing but the labour spent differs between the two states of a step
OnlyLabourChanges ==
    /\ UNCHANGED <<funds, stock, crafts, transfers, score, randomProductionInfo>>
    /\ UnitsOfCall = 0
    /\ StartsOfCall = 0

\* C11: in the scenario, with 1 engineer, every step that ends between two
\* multiples of 10 returns NOT_COMPLETE and changes only the labour; the
\* steps that reach 10 and 20 realize one unit (2 A more in stock), start
\* the next (funds 150, then 50) and return NOT_COMPLETE; the step that
\* reaches 30 realizes the third unit, debits nothing and returns COMPLETE,
\* with 3 units realized in all.
C11_ScenarioTrace ==
    [][(Scenario /\ engineers = 1 /\ IsStep)
        => /\ timeSpent' = timeSpent + 1
           /\ timeSpent' % 10 # 0
                 => status' = "NOT_COMPLETE" /\ OnlyLabourChanges
           /\ timeSpent' \in {10, 20}
                 => /\ status' = "NOT_COMPLETE"
                    /\ UnitsOfCall = 1
                    /\ StartsOfCall = 1
                    /\ stock' = [stock EXCEPT !["A"] = @ + 2]
                    /\ funds' = IF timeSpent' = 10 THEN 150 ELSE 50
                    /\ funds' = funds - 100
           /\ timeSpent' = 30
                 => /\ status' = "COMPLETE"
                    /\ UnitsOfCall = 1
                    /\ StartsOfCall = 0
                    /\ stock' = [stock EXCEPT !["A"] = @ + 2]
                    /\ funds' = funds
                    /\ hist'.units = 3]_vars
\* the end of the scenario: 30 hours of 1 engineer, 3 units, funds 50
C11_Witness ==
    /\ Scenario
    /\ engineers = 1
    /\ timeSpent = 30
    /\ status = "COMPLETE"
    /\ hist.units = 3
    /\ funds = 50
    /\ stock["A"] = 6

\* C12: a call of step that gets past the batch loop returns COMPLETE
\* exactly when the order is bounded and the count after the advancement
\* has reached the target; a call returning COMPLETE made one startItem per
\* unit it realized but the last, none for a further unit; an infinite
\* order is never COMPLETE.
C12_CompleteIffTargetReached ==
    /\ [](infinite => status # "COMPLETE" /\ phase # "complete")
    /\ [][(IsStep /\ hist'.at = "end")
            => /\ status' = "COMPLETE"
                    <=> (~infinite /\ GetAmountProducedAt(timeSpent') >= amount)
               /\ status' = "COMPLETE"
                    => /\ StartsOfCall = Max(UnitsOfCall - 1, 0)
                       /\ phase' = "complete"]_vars
C12_Witness ==
    /\ hist.lastOp = "step" /\ hist.at = "end"
    /\ status = "COMPLETE" /\ ~infinite
    /\ GetAmountProduced >= amount
    /\ hist.units >= 2 /\ hist.starts = hist.units

\* C13: a call of step in which the count of completed units stays what it
\* was, on an order that has not reached its target, returns NOT_COMPLETE
\* and changes _timeSpent only: funds, stock, roster, transfers, score and
\* the random tally are untouched, whatever the funds, the materials and the
\* living quarters are.
C13_NoUnitTickChangesLabourOnly ==
    [][(/\ IsStep
        /\ GetAmountProducedAt(timeSpent') = GetAmountProduced
        /\ (infinite \/ GetAmountProducedAt(timeSpent') < amount))
            => /\ status' = "NOT_COMPLETE"
               /\ OnlyLabourChanges
               /\ timeSpent' = timeSpent + engineers
               /\ UNCHANGED <<amount, infinite, sell, engineers>>]_vars
C13_Witness ==
    /\ hist.lastOp = "step" /\ status = "NOT_COMPLETE"
    /\ rules.time = 10 /\ timeSpent % 10 = 5
    /\ ~HaveEnoughMoneyForOneMoreUnit(World)
    /\ hist.units = 1

\* C17: per realized unit a rule with a produced craft adds exactly one
\* craft of that type to the roster and neither stocks, tallies nor sells
\* its produced items, a rule without one adds no craft; the roulette runs
\* once per realized unit of a rule with random sets, after either branch,
\* and a rule without random sets never runs it.
C17_CraftExcludesItemsRouletteAlways ==
    [][IsStep
        => /\ rules.producedCraft # ""
                => /\ CraftCount(crafts', rules.producedCraft)
                         = CraftCount(crafts, rules.producedCraft) + UnitsOfCall
                   /\ Len(crafts') = Len(crafts) + UnitsOfCall
                         - StartsOfCall * Len(rules.requiredCrafts)
                   /\ funds' = funds - StartsOfCall * rules.cost
                   /\ \A i \in Items :
                         /\ stock'[i] = stock[i] + GrantsOf(hist'.log, i)
                                        - StartsOfCall * rules.requiredItems[i]
                         /\ randomProductionInfo'[i]
                               = randomProductionInfo[i] + GrantsOf(hist'.log, i)
           /\ rules.producedCraft = ""
                => /\ Len(crafts') = Len(crafts)
                         - StartsOfCall * Len(rules.requiredCrafts)
                   /\ \A t \in {"NEW", "SUP", "OTHER"} :
                         CraftCount(crafts', t) <= CraftCount(crafts, t)
           /\ Len(hist'.log) = IF HasRandom THEN UnitsOfCall ELSE 0
           /\ \A k \in 1..Len(hist'.log) :
                 /\ hist'.log[k].roll \in 1..TotalWeight
                 /\ hist'.log[k].set \in 1..Len(rules.randomProducedItems)]_vars
\* a craft rule with produced items and random sets, selling and not
C17_Witness ==
    /\ hist.lastOp = "step" /\ rules.producedCraft # ""
    /\ \E i \in Items : rules.producedItems[i] > 0
    /\ hist.units >= 2 /\ Len(hist.log) >= 1
    /\ CraftCount(crafts, rules.producedCraft) = hist.units
    /\ sell

\* C19: funds and the stock of every item type never go below zero: every
\* startItem of step follows the money check and the materials check, both
\* passed on the pools startItem then debits.
C19_FundsAndStockNeverNegative ==
    /\ funds >= 0
    /\ \A i \in Items : stock[i] >= 0
\* a call of step that spent the last of the funds and of a required item
C19_Witness ==
    /\ hist.lastOp = "step" /\ hist.starts >= 2 /\ hist.units >= 1
    /\ funds = 0
    /\ \E i \in Items : rules.requiredItems[i] > 0 /\ stock[i] = 0

\* C20: for a rule whose time per unit is not positive getAmountProduced is
\* the target, so a call of step realizes no unit and starts none: funds,
\* stock, roster and transfers stay; a bounded order returns COMPLETE on its
\* first call, an infinite one NOT_COMPLETE on every call.
C20_InstantRuleRealizesNothing ==
    /\ [](rules.time <= 0 => GetAmountProduced = amount /\ hist.units = 0)
    /\ [][(IsStep /\ rules.time <= 0)
            => /\ OnlyLabourChanges
               /\ status' = IF infinite THEN "NOT_COMPLETE" ELSE "COMPLETE"
               /\ ~infinite => timeSpent = 0 /\ phase' = "complete"]_vars
C20_Witness ==
    /\ rules.time <= 0 /\ hist.lastOp = "step"
    /\ ~infinite /\ status = "COMPLETE"
    /\ hist.units = 0 /\ hist.starts = 1
    /\ timeSpent = engineers

\* C16 (as claimed): in every call of step in which the count of completed
\* units grows and that is not stopped inside the batch, the units realized
\* are min(after, target) - before for a bounded order and after - before
\* for an infinite one, none being realized when that number is not positive.
C16_RealizedIsNewlyCompleted ==
    [][(/\ IsStep
        /\ GetAmountProduced < GetAmountProducedAt(timeSpent')
        /\ hist'.at = "end")
            => LET before == GetAmountProduced
                   after == GetAmountProducedAt(timeSpent')
                   newlyCompleted == IF infinite THEN after - before
                                     ELSE Min(after, amount) - before
               IN UnitsOfCall = Max(newlyCompleted, 0)]_vars

IsLoad == hist'.lastOp = "load"
\* the key save writes each field under
KeyOf ==
    [engineers |-> "assigned", timeSpent |-> "spent", amount |-> "amount",
     infinite |-> "infinite", sell |-> "sell",
     randomProductionInfo |-> "randomProductionInfo"]
\* the value the file holds for the field f: the saved one when the node
\* has its key, else the one the order in memory has
AsRead(f) == IF KeyOf[f] \in DOMAIN node THEN hist.saved[f] ELSE Order[f]
\* the fields of the order after the transition
OrderAfter ==
    [engineers |-> engineers', timeSpent |-> timeSpent', amount |-> amount',
     infinite |-> infinite', sell |-> sell',
     randomProductionInfo |-> randomProductionInfo']

\* C14: loading a node whose target is INT_MAX gives the target 999 with the
\* infinite and the sell flag set, whatever the node says of them; any other
\* target is loaded as read, with the flags as read; step never changes the
\* target or the flags.
C14_LoadMigratesSentinel ==
    /\ [][IsLoad
            => /\ AsRead("amount") = IntMax
                    => /\ amount' = LegacyInfiniteAmount
                       /\ infinite' /\ sell'
               /\ AsRead("amount") # IntMax
                    => /\ amount' = AsRead("amount")
                       /\ infinite' = AsRead("infinite")
                       /\ sell' = AsRead("sell")]_vars
    /\ [][IsStep => UNCHANGED <<amount, infinite, sell>>]_vars
\* an order saved bounded and not selling with the target INT_MAX, loaded
C14_Witness ==
    /\ hist.lastOp = "load" /\ hist.dropped = ""
    /\ hist.saved.amount = IntMax
    /\ ~hist.saved.infinite /\ ~hist.saved.sell
    /\ hist.saved.timeSpent >= 1
    /\ amount = LegacyInfiniteAmount /\ infinite /\ sell

\* C15: save writes the sell flag only when it is set and the tally only for
\* a rule with random sets; loading the node of an order whose target is
\* not INT_MAX into a new order of the same rule gives back the engineers,
\* the time spent, the target, both flags and, for a rule with random sets,
\* the tally; a field whose key the node lacks stays what it was in memory.
C15_SaveLoadRoundTrip ==
    /\ [](hist.lastOp = "save"
            => /\ {"item", "assigned", "spent", "amount", "infinite"}
                     \subseteq DOMAIN node
               /\ "sell" \in DOMAIN node <=> sell
               /\ "randomProductionInfo" \in DOMAIN node <=> HasRandom)
    /\ [][(IsLoad /\ hist.saved.amount # IntMax)
            => /\ hist.dropped = ""
                    => /\ engineers' = hist.saved.engineers
                       /\ timeSpent' = hist.saved.timeSpent
                       /\ amount' = hist.saved.amount
                       /\ infinite' = hist.saved.infinite
                       /\ sell' = hist.saved.sell
                       /\ HasRandom => randomProductionInfo'
                                          = hist.saved.randomProductionInfo
               /\ \A f \in DOMAIN KeyOf :
                     IF KeyOf[f] \in DOMAIN node
                         /\ (f = "randomProductionInfo" => HasRandom)
                     THEN OrderAfter[f] = hist.saved[f]
                     ELSE OrderAfter[f] = Order[f]]_vars
\* a selling order of a rule with random sets, saved with engineers, time
\* spent and a tally, loaded again whole
C15_Witness ==
    /\ hist.lastOp = "load" /\ hist.dropped = ""
    /\ hist.saved.amount # IntMax
    /\ HasRandom /\ randomProductionInfo # NoItems
    /\ sell /\ infinite /\ engineers = 2 /\ timeSpent >= 2
    /\ Order = hist.saved

\* C18 (as claimed): next(offset), and nextValue(offset) likewise, gives the
\* entity at position offset from the front of the storage when
\* 0 <= offset < size, and null when offset is out of bounds.
C18_NextReturnsEntityAtOffset ==
    registry.call \in {"next", "nextValue"}
        => registry.result
              = IF 0 <= registry.offset /\ registry.offset < Len(registry.storage)
                THEN Entity(registry.storage[registry.offset + 1])
                ELSE Null

\* C21: a bounded order of a rule that takes time, with engineers assigned,
\* is eventually COMPLETE when step keeps being called, whatever the funds,
\* the stock and the living quarters are; a call of step makes at most
\* max(1, newlyCompleted) passes of its batch loop.
C21_StepEventuallyCompletes ==
    /\ (phase = "active" /\ engineers >= 1 /\ rules.time > 0 /\ ~infinite)
          ~> (status = "COMPLETE")
    /\ [][IsStep
            => LET before == GetAmountProduced
                   after == GetAmountProducedAt(timeSpent')
                   newlyCompleted == Min(after, amount) - before
               IN /\ timeSpent' = timeSpent + engineers
                  /\ UnitsOfCall <= Max(1, newlyCompleted)]_vars
\* an order completed though it could never pay for another unit
C21_Witness ==
    /\ status = "COMPLETE" /\ hist.lastOp = "step"
    /\ rules.time > 0 /\ ~infinite /\ engineers >= 1
    /\ hist.restores = 0 /\ hist.starts = 1
    /\ ~HaveEnoughMoneyForOneMoreUnit(World)
    /\ amount >= 2

\* whether the rule has an entry of required craft for the type t
RequiresCraft(t) ==
    \E k \in 1..Len(rules.requiredCrafts) : rules.requiredCrafts[k][1] = t
\* the roster cs without the first craft of every required type
RECURSIVE WithoutFirstOfEach(_, _)
WithoutFirstOfEach(cs, taken) ==
    IF cs = << >> THEN << >>
    ELSE IF RequiresCraft(Head(cs)) /\ Head(cs) \notin taken
    THEN WithoutFirstOfEach(Tail(cs), taken \cup {Head(cs)})
    ELSE <<Head(cs)>> \o WithoutFirstOfEach(Tail(cs), taken)

\* C22: a startItem made after the materials check passed takes exactly one
\* craft of each required type off the roster, however many the entry
\* requires, takes the required quantity of each required item, debits the
\* cost of the rule, and leaves every other craft and item as it was; the
\* startItem calls of step do the same, once each.
C22_StartItemTakesOneCraftPerEntry ==
    /\ [][(phase = "queued" /\ phase' = "active")
            => /\ HaveEnoughMaterialsForOneMoreUnit(World)
               /\ funds' = funds - rules.cost
               /\ \A i \in Items : stock'[i] = stock[i] - rules.requiredItems[i]
               /\ \A t \in CraftTypes :
                     CraftCount(crafts', t)
                        = CraftCount(crafts, t) - (IF RequiresCraft(t) THEN 1 ELSE 0)
               /\ crafts' = WithoutFirstOfEach(crafts, {})
               /\ UNCHANGED <<transfers, score, randomProductionInfo>>]_vars
    /\ [][IsStep
            => \A t \in CraftTypes :
                  CraftCount(crafts', t)
                     = CraftCount(crafts, t)
                       - (IF RequiresCraft(t) THEN StartsOfCall ELSE 0)
                       + (IF rules.producedCraft = t THEN UnitsOfCall ELSE 0)]_vars
\* an order of a rule requiring two craft of a type, started at a base that
\* held three of them among others: two are left
C22_Witness ==
    /\ phase = "active" /\ hist.starts = 1 /\ hist.lastOp = "other"
    /\ rules.requiredCrafts[1][2] = 2
    /\ CraftCount(hist.preStart.crafts, rules.requiredCrafts[1][1]) = 3
    /\ CraftCount(crafts, rules.requiredCrafts[1][1]) = 2
    /\ Len(crafts) = Len(hist.preStart.crafts) - Len(rules.requiredCrafts)
    /\ stock = RemoveItems(hist.preStart.stock, rules.requiredItems)
    /\ funds = hist.preStart.funds - rules.cost

====
